---- MODULE Spec2Model ----
(***************************************************************************)
(* Event ticket dashboard (streamlit_app_01.py).                           *)
(*                                                                         *)
(* The sheet ("tickets" and "menu" worksheets) is the store.  A script run *)
(* of one operator session loads both worksheets (load_all_data), then at  *)
(* most one button handler acts on the in-memory tables and saves the full *)
(* ticket table back (save_to_gsheets).  A second operator's script runs   *)
(* are taken as single steps on the store (Other* actions, SpecConc only). *)
(*                                                                         *)
(* Strings that the code takes apart (TicketID) are sequences of one       *)
(* character strings.  A sheet cell of a column that load_all_data cleans  *)
(* with fillna is << >> when blank and <<v>> when it holds v.              *)
(***************************************************************************)
EXTENDS Integers, Sequences, FiniteSets, TLC

VARIABLES
    store,          \* worksheet "tickets": sequence of raw rows
    storeMenu,      \* worksheet "menu": sequence of menu rows
    tickets,        \* this session's tickets DataFrame (normalized rows)
    menu,           \* this session's menu DataFrame
    menu_display,   \* custom_sort(menu.copy()) shown by the Edit Menu tab
    summary,        \* the dashboard's group rows, as last rendered
    pc,             \* where this session's script run stands
    overwritten     \* history: the rows whose persisted sale the last save replaced

vars == <<store, storeMenu, tickets, menu, menu_display, summary, pc, overwritten>>

----------------------------------------------------------------------------
(* Bounds of the model *)

NumRows == 2        \* rows of the tickets worksheet
MaxBulk == 2        \* rows of an uploaded bulk-sale file
MaxLen == 5         \* characters of a raw TicketID (SpecNorm)
MaxMenu == 3        \* rows of the menu worksheet (SpecSort)

----------------------------------------------------------------------------
(* Values *)

None == "None"
Passwords == {"admin123", "", "Admin123"}
Types == {"Public", "Guest"}
Categories == {"Gold", "VIP"}
Customers == {"alice", "bob"}
Times == {"t1"}
DigitChars == {"0", "1", "2", "3", "4", "5", "6", "7", "8", "9"}
IdChars == {"0", "1", "2", "9", "."}

(* A Seq cell: the integer val, or the string of its decimal digits *)
IntCell(n) == [str |-> FALSE, val |-> n]
StrCell(n) == [str |-> TRUE, val |-> n]
SeqCells == {IntCell(0), StrCell(0), IntCell(1), IntCell(3), IntCell(10), IntCell(12)}

(* The two kinds of ticket the sheet is provisioned with *)
Kinds ==
    { [Type |-> "Public", Category |-> "Gold", Seq |-> IntCell(1), Admit |-> 2],
      [Type |-> "Guest", Category |-> "VIP", Seq |-> IntCell(0), Admit |-> 1] }

(* Raw TicketID cells in their string form *)
RawIDs == { <<"1", "2">>, <<"1", "2", ".", "0">>, <<"9", "0", "1", ".", "0">> }

(* The rows an uploaded file is made of (columns TicketID, CustomerName) *)
UploadRows ==
    { [TicketID |-> <<"1", "2">>, CustomerName |-> "alice"],
      [TicketID |-> <<"1", "2">>, CustomerName |-> "bob"],
      [TicketID |-> <<"9", "0", "1">>, CustomerName |-> "alice"],
      [TicketID |-> <<"9", "0", "1", ".", "0">>, CustomerName |-> "bob"] }

----------------------------------------------------------------------------
(* load_all_data: the TicketID cleaning, x.split('.')[0].zfill(4) *)

Zeros(n) == [i \in 1..n |-> "0"]

split_dot_0(x) ==
    IF \E i \in 1..Len(x) : x[i] = "."
    THEN LET k == CHOOSE i \in 1..Len(x) :
                    x[i] = "." /\ \A j \in 1..(i - 1) : x[j] # "."
         IN SubSeq(x, 1, k - 1)
    ELSE x

(* Variant: a padding that also cuts the string down to its last width characters *)
zfill_cut(s, width) ==
    IF Len(s) >= width THEN SubSeq(s, Len(s) - width + 1, Len(s))
    ELSE [i \in 1..(width - Len(s)) |-> "0"] \o s

zfill(s, width) ==
    IF Len(s) >= width THEN s
    ELSE IF Len(s) > 0 /\ s[1] \in {"+", "-"}
         THEN <<s[1]>> \o Zeros(width - Len(s)) \o Tail(s)
         ELSE Zeros(width - Len(s)) \o s

CleanTicketID(x) == zfill(split_dot_0(x), 4)

fillna(cell, dflt) == IF cell = << >> THEN dflt ELSE cell[1]

NormalizeRow(r) ==
    [r EXCEPT !.TicketID = CleanTicketID(r.TicketID),
              !.Sold = fillna(r.Sold, FALSE),
              !.Visited = fillna(r.Visited, FALSE),
              !.Visitor_Seats = fillna(r.Visitor_Seats, 0)]

NormalizeTickets(raw) == [i \in DOMAIN raw |-> NormalizeRow(raw[i])]

(* save_to_gsheets: the sheet rows written for a tickets DataFrame *)
SheetRow(t) ==
    [t EXCEPT !.Sold = <<t.Sold>>,
              !.Visited = <<t.Visited>>,
              !.Visitor_Seats = <<t.Visitor_Seats>>]

SheetRows(df) == [i \in DOMAIN df |-> SheetRow(df[i])]

(* An untouched sheet row: the cells are blank, or hold FALSE and 0 *)
RawTicket(id, kind, blank) ==
    [TicketID |-> id, Type |-> kind.Type, Category |-> kind.Category,
     Seq |-> kind.Seq, Admit |-> kind.Admit,
     Sold |-> IF blank THEN << >> ELSE <<FALSE>>,
     Visited |-> IF blank THEN << >> ELSE <<FALSE>>,
     Customer |-> "",
     Visitor_Seats |-> IF blank THEN << >> ELSE <<0>>,
     Timestamp |-> None]

----------------------------------------------------------------------------
(* custom_sort *)

sort_key(x) == IF x.val = 0 THEN 10 ELSE x.val

Perms(n) == { p \in [1..n -> 1..n] : \A i, j \in 1..n : i # j => p[i] # p[j] }

(* sort_values is not asked for a stable sort: rows of equal key come out in *)
(* any order, so custom_sort is the set of its possible results              *)
sort_values(df) ==
    { [i \in 1..Len(df) |-> df[p[i]]] :
        p \in { q \in Perms(Len(df)) :
                   \A i \in 1..(Len(df) - 1) :
                       sort_key(df[q[i]].Seq) <= sort_key(df[q[i + 1]].Seq) } }

custom_sort(df) ==
    IF df = << >> THEN {df}
    ELSE IF "Seq" \notin DOMAIN df[1] THEN {df}
    ELSE sort_values(df)

----------------------------------------------------------------------------
(* The dashboard summary: groupby(['Seq', 'Type', 'Category', 'Admit']).agg *)

group_key(t) ==
    [Seq |-> t.Seq, Type |-> t.Type, Category |-> t.Category, Admit |-> t.Admit]

group_rows(df, k) == { i \in DOMAIN df : group_key(df[i]) = k }

RECURSIVE col_sum(_, _)
col_sum(col, rows) ==
    IF rows = {} THEN 0
    ELSE LET i == CHOOSE j \in rows : TRUE
         IN col[i] + col_sum(col, rows \ {i})

agg(df, k) ==
    LET rows == group_rows(df, k)
    IN [Total_Tickets |-> col_sum([i \in DOMAIN df |-> 1], rows),
        Tickets_Sold |-> col_sum([i \in DOMAIN df |-> IF df[i].Sold THEN 1 ELSE 0], rows),
        Total_Visitors |-> col_sum([i \in DOMAIN df |-> df[i].Visitor_Seats], rows)]

(* Variant: the seats sold taken from the visitors' column *)
summary_row_seats_from_visitors(k, a) ==
    [Seq |-> k.Seq, Type |-> k.Type, Category |-> k.Category, Admit |-> k.Admit,
     Total_Tickets |-> a.Total_Tickets,
     Tickets_Sold |-> a.Tickets_Sold,
     Total_Seats |-> a.Total_Tickets * k.Admit,
     Seats_sold |-> a.Total_Visitors,
     Total_Visitors |-> a.Total_Visitors,
     Balance_Tickets |-> a.Total_Tickets - a.Tickets_Sold,
     Balance_Seats |-> (a.Total_Tickets * k.Admit) - a.Total_Visitors,
     Balance_Visitors |-> a.Total_Visitors - a.Total_Visitors]

(* The derived columns of one group row *)
summary_row(k, a) ==
    [Seq |-> k.Seq, Type |-> k.Type, Category |-> k.Category, Admit |-> k.Admit,
     Total_Tickets |-> a.Total_Tickets,
     Tickets_Sold |-> a.Tickets_Sold,
     Total_Seats |-> a.Total_Tickets * k.Admit,
     Seats_sold |-> a.Tickets_Sold * k.Admit,
     Total_Visitors |-> a.Total_Visitors,
     Balance_Tickets |-> a.Total_Tickets - a.Tickets_Sold,
     Balance_Seats |-> (a.Total_Tickets * k.Admit) - (a.Tickets_Sold * k.Admit),
     Balance_Visitors |-> (a.Tickets_Sold * k.Admit) - a.Total_Visitors]

RECURSIVE as_rows(_)
as_rows(S) ==
    IF S = {} THEN << >>
    ELSE LET r == CHOOSE x \in S : TRUE
         IN <<r>> \o as_rows(S \ {r})

(* One row per group key of the table; custom_sort orders the rows *)
groupby_agg(df) ==
    as_rows({ summary_row(k, agg(df, k)) : k \in { group_key(df[i]) : i \in DOMAIN df } })

----------------------------------------------------------------------------
(* The button handlers as functions of the tickets DataFrame *)

First(S) == CHOOSE i \in S : \A j \in S : i <= j

RowsWithID(df, tid) == { i \in DOMAIN df : df[i].TicketID = tid }

CategoriesOf(m, type) == { m[i].Category : i \in { j \in DOMAIN m : m[j].Type = type } }

avail(df, s_type, s_cat) ==
    { df[i].TicketID :
        i \in { j \in DOMAIN df : /\ df[j].Type = s_type
                                 /\ df[j].Category = s_cat
                                 /\ ~df[j].Sold } }

SaleIndex(df, tid) == First(RowsWithID(df, tid))

(* Variant: the sale writes a fresh sold row, dropping the visit *)
ConfirmSaleFreshRow(df, tid, cust, now) ==
    LET idx == SaleIndex(df, tid)
    IN [df EXCEPT ![idx].Sold = TRUE,
                  ![idx].Visited = FALSE,
                  ![idx].Visitor_Seats = 0,
                  ![idx].Customer = cust,
                  ![idx].Timestamp = now]

ConfirmSale(df, tid, cust, now) ==
    LET idx == SaleIndex(df, tid)
    IN [df EXCEPT ![idx].Sold = TRUE,
                  ![idx].Customer = cust,
                  ![idx].Timestamp = now]

str_zfill(s, width) == IF Len(s) >= width THEN s ELSE Zeros(width - Len(s)) \o s

UploadID(x) == str_zfill(x, 4)

(* Variant: the match not restricted to unsold rows *)
BulkMatchAnyRow(df, tid) == { i \in DOMAIN df : df[i].TicketID = tid }

BulkMatch(df, tid) == { i \in DOMAIN df : df[i].TicketID = tid /\ ~df[i].Sold }

BulkRow(df, row, now) ==
    LET match == BulkMatch(df, UploadID(row.TicketID))
    IN IF match # {}
       THEN LET idx == First(match)
            IN [df EXCEPT ![idx].Sold = TRUE,
                          ![idx].Customer = row.CustomerName,
                          ![idx].Timestamp = now]
       ELSE df

(* Variant: every row of the upload matched against the table as loaded *)
RECURSIVE ProcessBulkOnLoaded(_, _, _, _)
ProcessBulkOnLoaded(loaded, df, up_df, now) ==
    IF up_df = << >> THEN df
    ELSE LET match == BulkMatch(loaded, UploadID(Head(up_df).TicketID))
             next == IF match # {}
                     THEN [df EXCEPT ![First(match)].Sold = TRUE,
                                     ![First(match)].Customer = Head(up_df).CustomerName,
                                     ![First(match)].Timestamp = now]
                     ELSE df
         IN ProcessBulkOnLoaded(loaded, next, Tail(up_df), now)

ProcessBulkStale(df, up_df, now) == ProcessBulkOnLoaded(df, df, up_df, now)

RECURSIVE ProcessBulk(_, _, _)
ProcessBulk(df, up_df, now) ==
    IF up_df = << >> THEN df
    ELSE ProcessBulk(BulkRow(df, Head(up_df), now), Tail(up_df), now)

(* Variant: the check-in offered for unvisited tickets whether sold or not *)
elig_unvisited(df, v_type, v_cat) ==
    { df[i].TicketID :
        i \in { j \in DOMAIN df : /\ df[j].Type = v_type
                                 /\ df[j].Category = v_cat
                                 /\ ~df[j].Visited } }

elig(df, v_type, v_cat) ==
    { df[i].TicketID :
        i \in { j \in DOMAIN df : /\ df[j].Type = v_type
                                 /\ df[j].Category = v_cat
                                 /\ df[j].Sold
                                 /\ ~df[j].Visited } }

(* Variant: the bound read from the eligible row that offered the ID *)
max_v_of_eligible(df, tid) ==
    df[First({ i \in RowsWithID(df, tid) : df[i].Sold /\ ~df[i].Visited })].Admit

max_v(df, tid) == df[First(RowsWithID(df, tid))].Admit

(* Variant: the entry written to the last row carrying the ID *)
EntryIndexLast(df, tid) ==
    CHOOSE i \in RowsWithID(df, tid) : \A j \in RowsWithID(df, tid) : j <= i

EntryIndex(df, tid) == First(RowsWithID(df, tid))

ConfirmEntry(df, tid, v_count, now) ==
    LET idx == EntryIndex(df, tid)
    IN [df EXCEPT ![idx].Visited = TRUE,
                  ![idx].Visitor_Seats = v_count,
                  ![idx].Timestamp = now]

(* Variant: the reset leaves Customer as it is *)
ResetTableKeepCustomer(df) ==
    [i \in DOMAIN df |->
        [df[i] EXCEPT !.Sold = FALSE,
                      !.Visited = FALSE,
                      !.Visitor_Seats = 0,
                      !.Timestamp = None]]

(* Variant: the reset leaves Visitor_Seats as it is *)
ResetTableKeepSeats(df) ==
    [i \in DOMAIN df |->
        [df[i] EXCEPT !.Sold = FALSE,
                      !.Visited = FALSE,
                      !.Customer = "",
                      !.Timestamp = None]]

ResetTable(df) ==
    [i \in DOMAIN df |->
        [df[i] EXCEPT !.Sold = FALSE,
                      !.Visited = FALSE,
                      !.Customer = "",
                      !.Visitor_Seats = 0,
                      !.Timestamp = None]]

(* st.data_editor: the menu as shown, or with one Category cell retyped *)
Edits(shown) ==
    {shown} \cup { [shown EXCEPT ![i].Category = c] : i \in DOMAIN shown, c \in Categories }

Uploads == UNION { [1..n -> UploadRows] : n \in 0..MaxBulk }

(* The rows whose persisted sale a save replaces: Sold in the sheet, and *)
(* written unsold or with another Customer                               *)
Overwrites(old, new) ==
    { i \in DOMAIN old \cap DOMAIN new :
        /\ old[i].Sold = <<TRUE>>
        /\ (new[i].Sold # <<TRUE>> \/ new[i].Customer # old[i].Customer) }

----------------------------------------------------------------------------
(* Initial states *)

InitMenu ==
    << [Type |-> "Public", Category |-> "Gold", Seq |-> IntCell(1)],
       [Type |-> "Guest", Category |-> "VIP", Seq |-> IntCell(0)] >>

(* The provisioned sheet: every ticket Available; or an empty worksheet *)
InitTables ==
    { << >> } \cup
    { [i \in 1..NumRows |-> RawTicket(ids[i], kinds[i], blank)] :
        ids \in [1..NumRows -> RawIDs], kinds \in [1..NumRows -> Kinds],
        blank \in BOOLEAN }

Session0 ==
    /\ tickets = << >>
    /\ menu = << >>
    /\ menu_display = << >>
    /\ summary = << >>
    /\ pc = "start"
    /\ overwritten = {}

Init ==
    /\ store \in InitTables
    /\ storeMenu = InitMenu
    /\ Session0

----------------------------------------------------------------------------
(* The script run of this session *)

(* Initial Load: tickets, menu = load_all_data(); the Dashboard tab renders *)
(* the summary of the loaded table and the Edit Menu tab sorts the menu     *)
Load ==
    /\ IF store = << >> \/ storeMenu = << >>
       THEN /\ pc' = "stopped"
            /\ UNCHANGED <<tickets, menu, menu_display, summary>>
       ELSE /\ tickets' = NormalizeTickets(store)
            /\ menu' = storeMenu
            /\ summary' \in custom_sort(groupby_agg(tickets'))
            /\ menu_display' \in custom_sort(storeMenu)
            /\ pc' = "loaded"
    /\ overwritten' = {}
    /\ UNCHANGED <<store, storeMenu>>

(* Variant: a save that keeps a sheet row already sold to someone else *)
SaveTicketsKeepSold(df) ==
    /\ store' = [i \in DOMAIN df |->
                    IF i \in Overwrites(store, SheetRows(df))
                    THEN store[i] ELSE SheetRows(df)[i]]
    /\ overwritten' = {}

(* Variant: a save that leaves a sold sheet row alone when the table saved *)
(* shows the ticket unsold                                                 *)
SaveTicketsUnsoldKept(df) ==
    /\ store' = [i \in DOMAIN df |->
                    IF i \in DOMAIN store /\ store[i].Sold = <<TRUE>> /\ ~df[i].Sold
                    THEN store[i] ELSE SheetRows(df)[i]]
    /\ overwritten' = {}

(* save_to_gsheets(tickets_df): the worksheet is replaced wholesale *)
SaveTickets(df) ==
    /\ store' = SheetRows(df)
    /\ overwritten' = Overwrites(store, SheetRows(df))

(* Variant: the sale made in the session's table and never saved *)
SellUnsaved ==
    /\ pc = "loaded"
    /\ \E s_type \in Types :
       \E s_cat \in CategoriesOf(menu, s_type) :
       \E tid \in avail(tickets, s_type, s_cat) :
       \E cust \in Customers, now \in Times :
          tickets' = ConfirmSale(tickets, tid, cust, now)
    /\ pc' = "sold"
    /\ UNCHANGED <<store, overwritten, storeMenu, menu, menu_display, summary>>

(* Confirm Sale *)
Sell ==
    /\ pc = "loaded"
    /\ \E s_type \in Types :
       \E s_cat \in CategoriesOf(menu, s_type) :
       \E tid \in avail(tickets, s_type, s_cat) :
       \E cust \in Customers, now \in Times :
          /\ tickets' = ConfirmSale(tickets, tid, cust, now)
          /\ SaveTickets(tickets')
    /\ pc' = "sold"
    /\ UNCHANGED <<storeMenu, menu, menu_display, summary>>

(* Process Bulk Sale *)
BulkSell ==
    /\ pc = "loaded"
    /\ \E up_df \in Uploads, now \in Times :
          /\ tickets' = ProcessBulk(tickets, up_df, now)
          /\ SaveTickets(tickets')
    /\ pc' = "bulk_sold"
    /\ UNCHANGED <<storeMenu, menu, menu_display, summary>>

(* Confirm Entry *)
CheckIn ==
    /\ pc = "loaded"
    /\ \E v_type \in Types :
       \E v_cat \in CategoriesOf(menu, v_type) :
       \E tid \in elig(tickets, v_type, v_cat) :
       \E v_count \in 1..max_v(tickets, tid), now \in Times :
          /\ tickets' = ConfirmEntry(tickets, tid, v_count, now)
          /\ SaveTickets(tickets')
    /\ pc' = "checked_in"
    /\ UNCHANGED <<storeMenu, menu, menu_display, summary>>

(* Variant: the save issued whatever the password *)
ResetSavesAnyway ==
    /\ pc = "loaded"
    /\ \E admin_pass \in Passwords :
          IF admin_pass = "admin123"
          THEN /\ tickets' = ResetTable(tickets)
               /\ SaveTickets(tickets')
               /\ pc' = "reset"
          ELSE /\ pc' = "reset_denied"
               /\ SaveTickets(tickets)
               /\ UNCHANGED tickets
    /\ UNCHANGED <<storeMenu, menu, menu_display, summary>>

(* Reset Database *)
Reset ==
    /\ pc = "loaded"
    /\ \E admin_pass \in Passwords :
          IF admin_pass = "admin123"
          THEN /\ tickets' = ResetTable(tickets)
               /\ SaveTickets(tickets')
               /\ pc' = "reset"
          ELSE /\ pc' = "reset_denied"
               /\ UNCHANGED <<tickets, store, overwritten>>
    /\ UNCHANGED <<storeMenu, menu, menu_display, summary>>

(* Variant: only the menu worksheet is written *)
UpdateMenuOnly ==
    /\ pc = "loaded"
    /\ \E edited_menu \in Edits(menu_display) :
          storeMenu' = edited_menu
    /\ pc' = "menu_updated"
    /\ UNCHANGED <<store, overwritten, tickets, menu, menu_display, summary>>

(* Update Google Sheet Menu: save_to_gsheets(tickets, edited_menu) *)
UpdateMenu ==
    /\ pc = "loaded"
    /\ \E edited_menu \in Edits(menu_display) :
          /\ SaveTickets(tickets)
          /\ storeMenu' = edited_menu
    /\ pc' = "menu_updated"
    /\ UNCHANGED <<tickets, menu, menu_display, summary>>

Next == Load \/ Sell \/ BulkSell \/ CheckIn \/ Reset \/ UpdateMenu

Spec == Init /\ [][Next]_vars

----------------------------------------------------------------------------
(* A second operator.  One whole script run of another session (load, one  *)
(* handler, save) is a single step on the sheet, taken between this        *)
(* session's load and its handler: a run of the other session outside that *)
(* window changes the sheet as a run of this session would.                *)

OtherLoaded == pc = "loaded" /\ store # << >> /\ storeMenu # << >>

OtherSell ==
    /\ OtherLoaded
    /\ \E s_type \in Types :
       \E s_cat \in CategoriesOf(storeMenu, s_type) :
       \E tid \in avail(NormalizeTickets(store), s_type, s_cat) :
       \E cust \in Customers, now \in Times :
          store' = SheetRows(ConfirmSale(NormalizeTickets(store), tid, cust, now))
    /\ UNCHANGED <<storeMenu, tickets, menu, menu_display, summary, pc, overwritten>>

OtherCheckIn ==
    /\ OtherLoaded
    /\ \E v_type \in Types :
       \E v_cat \in CategoriesOf(storeMenu, v_type) :
       \E tid \in elig(NormalizeTickets(store), v_type, v_cat) :
       \E v_count \in 1..max_v(NormalizeTickets(store), tid), now \in Times :
          store' = SheetRows(ConfirmEntry(NormalizeTickets(store), tid, v_count, now))
    /\ UNCHANGED <<storeMenu, tickets, menu, menu_display, summary, pc, overwritten>>

OtherReset ==
    /\ OtherLoaded
    /\ store' = SheetRows(ResetTable(NormalizeTickets(store)))
    /\ UNCHANGED <<storeMenu, tickets, menu, menu_display, summary, pc, overwritten>>

OtherUpdateMenu ==
    /\ OtherLoaded
    /\ \E shown \in custom_sort(storeMenu) :
       \E edited_menu \in Edits(shown) :
          /\ store' = SheetRows(NormalizeTickets(store))
          /\ storeMenu' = edited_menu
    /\ UNCHANGED <<tickets, menu, menu_display, summary, pc, overwritten>>

NextConc ==
    \/ Load \/ Sell \/ CheckIn \/ Reset \/ UpdateMenu
    \/ OtherSell \/ OtherCheckIn \/ OtherReset \/ OtherUpdateMenu

(* The sheet of the two-operator runs: Public tickets, the IDs in this order *)
ConcIDs == << <<"1", "2">>, <<"9", "0", "1", ".", "0">>, <<"1", "2", ".", "0">> >>

InitConc ==
    /\ Init
    /\ store # << >>
    /\ \A i \in DOMAIN store :
          /\ store[i].TicketID = ConcIDs[((i - 1) % 3) + 1]
          /\ store[i].Type = "Public"
          /\ store[i].Sold = <<FALSE>>

SpecConc == InitConc /\ [][NextConc]_vars

----------------------------------------------------------------------------
(* The TicketID cleaning on its own: a one-row sheet with any raw ID *)

RawStrings == UNION { [1..n -> IdChars] : n \in 1..MaxLen }

InitNorm ==
    /\ \E id \in RawStrings, kind \in Kinds :
          store = << RawTicket(id, kind, TRUE) >>
    /\ storeMenu = InitMenu
    /\ Session0

SpecNorm == InitNorm /\ [][Load]_vars

(* The TicketID cleaning of two rows: a sheet whose first row holds one of a *)
(* few raw IDs and whose second row holds any raw ID                        *)

FirstRowIDs == RawIDs \cup { <<"0", "1", "2">>, <<"9", "0", "1">> }

InitPair ==
    /\ \E a \in FirstRowIDs, b \in RawStrings :
          LET kind == CHOOSE k \in Kinds : k.Type = "Public"
          IN store = << RawTicket(a, kind, TRUE), RawTicket(b, kind, TRUE) >>
    /\ storeMenu = InitMenu
    /\ Session0

SpecPair == InitPair /\ [][Load]_vars

(* custom_sort on its own: a menu worksheet with any Seq column *)

MenuRows == [Type : {"Public"}, Category : {"Gold"}, Seq : SeqCells]
NoSeqMenu == << [Type |-> "Public", Category |-> "Gold"] >>

InitSort ==
    /\ store = << RawTicket(<<"1", "2">>, CHOOSE k \in Kinds : k.Type = "Public", TRUE) >>
    /\ storeMenu \in {NoSeqMenu} \cup UNION { [1..n -> MenuRows] : n \in 1..MaxMenu }
    /\ Session0

SpecSort == InitSort /\ [][Load]_vars

(* The dashboard summary on its own: a sheet with any Sold and Visitor_Seats *)
(* cells, and two kinds of ticket that differ in Admit only                 *)

AggKinds ==
    Kinds \cup { [Type |-> "Public", Category |-> "Gold", Seq |-> IntCell(1), Admit |-> 3] }

AggRows ==
    { [RawTicket(<<"1", "2">>, kind, TRUE) EXCEPT !.Sold = sold, !.Visitor_Seats = seats] :
        kind \in AggKinds,
        sold \in {<< >>, <<FALSE>>, <<TRUE>>},
        seats \in {<< >>, <<1>>, <<3>>} }

InitAgg ==
    /\ store \in [1..NumRows -> AggRows]
    /\ storeMenu = InitMenu
    /\ Session0

SpecAgg == InitAgg /\ [][Load]_vars

----------------------------------------------------------------------------
(* Properties *)

SameID(df, i, j) == i < j /\ df[i].TicketID = df[j].TicketID

(* C1: in every reachable state of one operator's runs from a sheet of      *)
(* Available tickets (duplicate TicketIDs included), every ticket that is   *)
(* Visited is Sold, in the session's table and in the sheet.                *)
C1_VisitedImpliesSold ==
    /\ \A i \in DOMAIN tickets : tickets[i].Visited => tickets[i].Sold
    /\ \A i \in DOMAIN store : store[i].Visited = <<TRUE>> => store[i].Sold = <<TRUE>>

(* Two rows carry one TicketID; the later row is sold and unvisited, so its *)
(* ID was offered, and the check-in went to the first row.                  *)
C1_Witness ==
    /\ pc = "checked_in"
    /\ \E i, j \in DOMAIN tickets :
          /\ SameID(tickets, i, j)
          /\ tickets[i].Visited
          /\ tickets[j].Sold /\ ~tickets[j].Visited

(* C2: a ticket's Visitor_Seats is within [0, Admit] of that same ticket,   *)
(* and a checked-in ticket holds a count within [1, Admit].                 *)
C2_SeatsWithinAdmit ==
    \A i \in DOMAIN tickets :
        /\ 0 <= tickets[i].Visitor_Seats
        /\ tickets[i].Visitor_Seats <= tickets[i].Admit
        /\ tickets[i].Visited => 1 <= tickets[i].Visitor_Seats
        /\ store[i].Visitor_Seats \in {<< >>, <<tickets[i].Visitor_Seats>>}

(* A check-in with the full count went to the first of two rows with one ID *)
(* whose Admit is the smaller.                                              *)
C2_Witness ==
    /\ pc = "checked_in"
    /\ \E i, j \in DOMAIN tickets :
          /\ SameID(tickets, i, j)
          /\ tickets[i].Admit < tickets[j].Admit
          /\ tickets[i].Visited
          /\ tickets[i].Visitor_Seats = tickets[i].Admit
          /\ tickets[j].Sold

(* C3: a Confirm Sale step changes no ticket that was already Sold in the   *)
(* session's table (stated as claimed; refuted with two rows of one ID).    *)
C3_SellOnlyAvailable ==
    [][(pc = "loaded" /\ pc' = "sold") =>
          \A i \in DOMAIN tickets : tickets[i].Sold => tickets'[i] = tickets[i]]_vars

(* C4: with one operator, a ticket goes from Sold to unsold, or from        *)
(* Visited to unvisited, only in a Reset step with the correct password.    *)
C4_OneDirectional ==
    [][\A i \in DOMAIN tickets \cap DOMAIN tickets' :
          (\/ tickets[i].Sold /\ ~tickets'[i].Sold
           \/ tickets[i].Visited /\ ~tickets'[i].Visited) => pc' = "reset"]_vars

(* A sale was confirmed in a table that holds a visited ticket, which stays *)
(* visited, in the session and in the sheet.                                *)
C4_Witness ==
    /\ pc = "sold"
    /\ \E i \in DOMAIN tickets :
          tickets[i].Visited /\ tickets[i].Sold /\ store[i].Visited = <<TRUE>>

(* C5: a Reset step with the correct password leaves every row Available    *)
(* with Customer "", Visitor_Seats 0 and Timestamp null, keeps TicketID,     *)
(* Type, Category, Seq and Admit of every row, and writes that table to the  *)
(* sheet.                                                                    *)
C5_ResetClears ==
    [][pc' = "reset" =>
          /\ DOMAIN tickets' = DOMAIN tickets
          /\ DOMAIN store' = DOMAIN tickets
          /\ \A i \in DOMAIN tickets :
                /\ ~tickets'[i].Sold /\ ~tickets'[i].Visited
                /\ tickets'[i].Customer = ""
                /\ tickets'[i].Visitor_Seats = 0
                /\ tickets'[i].Timestamp = None
                /\ tickets'[i].TicketID = tickets[i].TicketID
                /\ tickets'[i].Type = tickets[i].Type
                /\ tickets'[i].Category = tickets[i].Category
                /\ tickets'[i].Seq = tickets[i].Seq
                /\ tickets'[i].Admit = tickets[i].Admit
                /\ store'[i].Sold = <<FALSE>> /\ store'[i].Visited = <<FALSE>>
                /\ store'[i].Customer = ""
                /\ store'[i].Visitor_Seats = <<0>>
                /\ store'[i].Timestamp = None
                /\ store'[i].TicketID = tickets[i].TicketID
                /\ store'[i].Admit = tickets[i].Admit]_vars

(* The reset replaced a persisted sale. *)
C5_Witness == pc = "reset" /\ overwritten # {}

(* C6: a Reset step with a wrong password changes neither the session's     *)
(* tables nor the sheet (no save is issued) and does not stop the run.      *)
C6_ResetDeniedNoOp ==
    [][pc' = "reset_denied" =>
          /\ UNCHANGED <<tickets, menu, store, storeMenu>>
          /\ pc = "loaded"]_vars

(* The password was refused while the sheet differed from the session's     *)
(* table, so that a save would have shown.                                  *)
C6_Witness ==
    /\ pc = "reset_denied"
    /\ store # SheetRows(tickets)

AllSoldFor(df, row) ==
    /\ RowsWithID(df, UploadID(row.TicketID)) # {}
    /\ \A i \in RowsWithID(df, UploadID(row.TicketID)) : df[i].Sold

Remove(up, k) == SubSeq(up, 1, k - 1) \o SubSeq(up, k + 1, Len(up))

(* C7 as claimed: an upload row whose ID is that of an already-sold ticket  *)
(* changes no ticket (refuted when another row with that ID is Available).  *)
C7_SkipsSoldID ==
    pc = "loaded" =>
        \A row \in UploadRows, now \in Times :
            (\E i \in RowsWithID(tickets, UploadID(row.TicketID)) : tickets[i].Sold)
                => BulkRow(tickets, row, now) = tickets

(* C7 amended: an upload row is skipped when every ticket carrying its ID   *)
(* is already sold: it changes no ticket, and the upload is processed as if *)
(* the row were absent.                                                     *)
C7_SkipsWhenAllSold ==
    pc = "loaded" =>
        \A up_df \in Uploads, now \in Times :
            \A k \in DOMAIN up_df :
                AllSoldFor(tickets, up_df[k]) =>
                    /\ BulkRow(tickets, up_df[k], now) = tickets
                    /\ ProcessBulk(tickets, up_df, now)
                          = ProcessBulk(tickets, Remove(up_df, k), now)

(* After a bulk sale and a reload: an upload ID whose tickets are all sold, *)
(* while another ticket is still Available.                                 *)
C7_Witness ==
    /\ pc = "loaded"
    /\ \E row \in UploadRows :
          /\ AllSoldFor(tickets, row)
          /\ \E j \in DOMAIN tickets : ~tickets[j].Sold

(* C8: when this session confirms a sale of a ticket that its table shows   *)
(* Available and that the sheet already shows Sold by the other operator,   *)
(* the save goes through and the sheet holds this session's Customer: the   *)
(* earlier sale is replaced.                                                *)
C8_LaterSaleWins ==
    [][(pc = "loaded" /\ pc' = "sold") =>
          \A i \in DOMAIN tickets :
              (~tickets[i].Sold /\ tickets'[i].Sold /\ store[i].Sold = <<TRUE>>) =>
                  /\ store'[i].Sold = <<TRUE>>
                  /\ store'[i].Customer = tickets'[i].Customer
                  /\ store[i].Customer # tickets'[i].Customer => i \in overwritten']_vars

(* The session sold the one ticket of its table that is sold, and the save  *)
(* replaced the other operator's persisted sale of that ticket.             *)
C8_Witness ==
    /\ pc = "sold"
    /\ \E i \in overwritten :
          /\ tickets[i].Sold
          /\ \A j \in DOMAIN tickets : j # i =>
                ~tickets[j].Sold /\ tickets[j].TicketID # tickets[i].TicketID

(* C9 as claimed: in the sorted menu no Seq of 0 (or "0") stands before a   *)
(* positive Seq, and the positive Seq values ascend.                        *)
C9_ZeroAfterPositive ==
    (pc = "loaded" /\ "Seq" \in DOMAIN menu[1]) =>
        \A i, j \in DOMAIN menu_display :
            i < j =>
                /\ ~(menu_display[i].Seq.val = 0 /\ menu_display[j].Seq.val > 0)
                /\ (menu_display[i].Seq.val > 0 /\ menu_display[j].Seq.val > 0)
                      => menu_display[i].Seq.val <= menu_display[j].Seq.val

(* C10 as claimed: every loaded TicketID is exactly 4 digit characters.     *)
C10_FourDigits ==
    pc = "loaded" =>
        \A i \in DOMAIN tickets :
            /\ Len(tickets[i].TicketID) = 4
            /\ \A k \in 1..Len(tickets[i].TicketID) : tickets[i].TicketID[k] \in DigitChars

SummaryRows == { summary[n] : n \in DOMAIN summary }

(* C11: for every ticket table, every group row of the summary satisfies     *)
(* Total_Seats = Total_Tickets * Admit, Seats_sold = Tickets_Sold * Admit,   *)
(* Balance_Tickets = Total_Tickets - Tickets_Sold and Balance_Seats =        *)
(* Total_Seats - Seats_sold, where Total_Tickets is the number of tickets    *)
(* with the row's key and Tickets_Sold the number of those that are Sold;    *)
(* and there is one row for each key of the table.                           *)
C11_GroupRowArithmetic ==
    pc = "loaded" =>
        /\ \A i \in DOMAIN tickets : \E g \in SummaryRows : group_key(g) = group_key(tickets[i])
        /\ \A m, n \in DOMAIN summary : group_key(summary[m]) = group_key(summary[n]) => m = n
        /\ \A g \in SummaryRows :
              LET with_key == { i \in DOMAIN tickets : group_key(tickets[i]) = group_key(g) }
              IN /\ g.Total_Tickets = Cardinality(with_key)
                 /\ g.Tickets_Sold = Cardinality({ i \in with_key : tickets[i].Sold })
                 /\ g.Total_Seats = g.Total_Tickets * g.Admit
                 /\ g.Seats_sold = g.Tickets_Sold * g.Admit
                 /\ g.Balance_Tickets = g.Total_Tickets - g.Tickets_Sold
                 /\ g.Balance_Seats = g.Total_Seats - g.Seats_sold

(* A group of several tickets with Admit 3, some sold and some not, whose   *)
(* visitors outnumber the seats sold.                                       *)
C11_Witness ==
    /\ pc = "loaded"
    /\ \E g \in SummaryRows :
          /\ g.Admit = 3
          /\ g.Total_Tickets >= 2
          /\ g.Tickets_Sold >= 1
          /\ g.Balance_Tickets >= 1
          /\ g.Balance_Visitors < 0

SavedPcs == {"sold", "bulk_sold", "checked_in", "reset", "menu_updated"}

(* C12: with one operator, every confirmed Sell, BulkSell, CheckIn, correct- *)
(* password Reset and Update Menu leaves the sheet holding the session's     *)
(* full ticket table, and the load that follows returns exactly that table.  *)
C12_SavedThenLoaded ==
    [][/\ (pc = "loaded" /\ pc' \in SavedPcs) =>
              /\ store' = SheetRows(tickets')
              /\ DOMAIN store' = DOMAIN tickets
       /\ (pc \in SavedPcs /\ pc' = "loaded") =>
              /\ tickets' = tickets
              /\ SheetRows(tickets') = store]_vars

(* The table loaded after a bulk sale and a check-in: it holds a visited    *)
(* ticket and another sold ticket, as they were saved.                      *)
C12_Witness ==
    /\ pc = "loaded"
    /\ \E i, j \in DOMAIN tickets :
          /\ i # j
          /\ tickets[i].Visited /\ tickets[i].Visitor_Seats >= 1
          /\ tickets[j].Sold /\ ~tickets[j].Visited
          /\ tickets[i].Customer # tickets[j].Customer
          /\ store = SheetRows(tickets)

(* C13: in every state one operator reaches by Sell, BulkSell, CheckIn and   *)
(* Reset from a sheet of Available tickets with empty Customer, no visitors  *)
(* and null Timestamp, every ticket that is not Sold has Customer "" and     *)
(* Timestamp null, and every ticket that is not Visited has Visitor_Seats 0, *)
(* in the session's table and in the sheet.                                  *)
C13_UnsoldIsBlank ==
    /\ \A i \in DOMAIN tickets :
          /\ ~tickets[i].Sold => tickets[i].Customer = "" /\ tickets[i].Timestamp = None
          /\ ~tickets[i].Visited => tickets[i].Visitor_Seats = 0
    /\ \A i \in DOMAIN store :
          /\ store[i].Sold # <<TRUE>> => store[i].Customer = "" /\ store[i].Timestamp = None
          /\ store[i].Visited # <<TRUE>> => store[i].Visitor_Seats \in {<< >>, <<0>>}

(* A sale was saved: one ticket sold with a Customer and a Timestamp, the    *)
(* other Available and blank, in the session's table and in the sheet.       *)
C13_Witness ==
    /\ pc = "sold"
    /\ \E i, j \in DOMAIN tickets :
          /\ tickets[i].Sold /\ tickets[i].Customer # "" /\ tickets[i].Timestamp # None
          /\ ~tickets[j].Sold /\ tickets[j].Customer = "" /\ tickets[j].Timestamp = None
          /\ store[j].Sold = <<FALSE>>
          /\ store[j].Visitor_Seats = <<0>>

SoldOrCheckedIn == pc = "loaded" /\ pc' \in {"sold", "checked_in"}

(* C14 as claimed: when this session sells or checks in a ticket and saves,  *)
(* every other ticket that the sheet shows Sold (sold by the other operator  *)
(* since this session's load) is still Sold in the sheet.                    *)
C14_OtherSaleSurvives ==
    [][SoldOrCheckedIn =>
          \A i \in DOMAIN store \cap DOMAIN tickets :
              (store[i].Sold = <<TRUE>> /\ tickets'[i] = tickets[i]) =>
                  store'[i].Sold = <<TRUE>>]_vars

(* C14 amended: the save replaces every row of the sheet by the session's    *)
(* row: a ticket the session did not write is stored as the session loaded  *)
(* it, so that a sale of it persisted since the load is undone.              *)
C14_StaleRowsWritten ==
    [][SoldOrCheckedIn =>
          /\ DOMAIN store' = DOMAIN tickets
          /\ \A i \in DOMAIN tickets :
                tickets'[i] = tickets[i] =>
                    /\ store'[i] = SheetRow(tickets[i])
                    /\ (store[i].Sold = <<TRUE>> /\ ~tickets[i].Sold) =>
                          (store'[i].Sold = <<FALSE>> /\ i \in overwritten')]_vars

(* The session sold or checked in one ticket, and its save returned another  *)
(* ticket, sold by the other operator, to Available.                         *)
C14_Witness ==
    /\ pc \in {"sold", "checked_in"}
    /\ \E i \in overwritten, j \in DOMAIN tickets :
          /\ i # j
          /\ ~tickets[i].Sold /\ store[i].Sold = <<FALSE>>
          /\ tickets[j].Sold
          /\ tickets[j].TicketID # tickets[i].TicketID

(* C15 as claimed: when the raw TicketIDs of the sheet are pairwise          *)
(* distinct, so are the TicketIDs of the loaded table.                       *)
C15_DistinctStayDistinct ==
    pc = "loaded" =>
        \A i, j \in DOMAIN store :
            store[i].TicketID # store[j].TicketID =>
                tickets[i].TicketID # tickets[j].TicketID

RECURSIVE lstrip_zeros(_)
lstrip_zeros(x) ==
    IF x # << >> /\ Head(x) = "0" THEN lstrip_zeros(Tail(x)) ELSE x

IntegerPart(x) == lstrip_zeros(split_dot_0(x))

(* C15 amended: two raw TicketIDs (digits, and a "." with what follows it)   *)
(* whose parts before the first "." differ by more than leading zeros are    *)
(* loaded as distinct TicketIDs; and two raw IDs of at most 4 characters     *)
(* before the "." that differ only in leading zeros or after the "." are     *)
(* loaded as the same TicketID.                                              *)
C15_DistinctIntegerParts ==
    pc = "loaded" =>
        \A i, j \in DOMAIN store :
            /\ IntegerPart(store[i].TicketID) # IntegerPart(store[j].TicketID) =>
                  tickets[i].TicketID # tickets[j].TicketID
            /\ ( /\ IntegerPart(store[i].TicketID) = IntegerPart(store[j].TicketID)
                 /\ Len(split_dot_0(store[i].TicketID)) <= 4
                 /\ Len(split_dot_0(store[j].TicketID)) <= 4 ) =>
                  tickets[i].TicketID = tickets[j].TicketID

(* Two raw IDs of five characters and of two, different before the "." and  *)
(* alike in their last digits, loaded as different TicketIDs.               *)
C15_Witness ==
    /\ pc = "loaded"
    /\ store[1].TicketID = <<"1", "2">>
    /\ store[2].TicketID = <<"9", "0", "0", "1", "2">>
    /\ tickets[1].TicketID = <<"0", "0", "1", "2">>
    /\ tickets[2].TicketID # tickets[1].TicketID

(* C16 as claimed: an Update Menu step leaves the tickets of the sheet as    *)
(* they were (read as the loader reads them), also when the other operator   *)
(* has saved a sale or a check-in since this session's load.                 *)
C16_TicketsUntouched ==
    [][pc' = "menu_updated" =>
          NormalizeTickets(store') = NormalizeTickets(store)]_vars

(* C16 amended: an Update Menu step writes the session's ticket table, as    *)
(* loaded, over the tickets worksheet together with the edited menu: the     *)
(* tickets of the sheet are as before only if they were the session's, and   *)
(* a row saved by the other operator since the load is replaced.             *)
C16_MenuSaveWritesTickets ==
    [][pc' = "menu_updated" =>
          /\ tickets' = tickets
          /\ store' = SheetRows(tickets)
          /\ storeMenu' \in Edits(menu_display)
          /\ (NormalizeTickets(store) = tickets) =>
                NormalizeTickets(store') = NormalizeTickets(store)
          /\ \A i \in DOMAIN store \cap DOMAIN tickets :
                NormalizeRow(store[i]) # tickets[i] =>
                    NormalizeRow(store'[i]) # NormalizeRow(store[i])]_vars

(* The menu was updated with a renamed Category, and the save took a ticket *)
(* that the other operator had sold back to Available.                      *)
C16_Witness ==
    /\ pc = "menu_updated"
    /\ storeMenu # menu
    /\ \E i \in overwritten :
          /\ ~tickets[i].Sold
          /\ store[i].Sold = <<FALSE>> /\ store[i].Visited = <<FALSE>>

Unsell(df, i) ==
    [df EXCEPT ![i].Sold = FALSE, ![i].Customer = "", ![i].Timestamp = None]

(* C17: in one bulk sale, when two rows of the upload carry the same ID, no  *)
(* row before them does, and exactly one ticket has that ID and is           *)
(* Available, the ticket ends Sold to the CustomerName of the first of the   *)
(* two rows, and the upload has the effect it has without the later row.     *)
C17_FirstRowWins ==
    pc = "loaded" =>
        \A up_df \in Uploads, now \in Times :
            \A j, k \in DOMAIN up_df :
            \A i \in DOMAIN tickets :
                ( /\ j < k
                  /\ UploadID(up_df[j].TicketID) = UploadID(up_df[k].TicketID)
                  /\ \A m \in 1..(j - 1) :
                        UploadID(up_df[m].TicketID) # UploadID(up_df[j].TicketID)
                  /\ RowsWithID(tickets, UploadID(up_df[j].TicketID)) = {i}
                  /\ ~tickets[i].Sold ) =>
                    /\ ProcessBulk(tickets, up_df, now)[i].Sold
                    /\ ProcessBulk(tickets, up_df, now)[i].Customer = up_df[j].CustomerName
                    /\ ProcessBulk(tickets, up_df, now)
                          = ProcessBulk(tickets, Remove(up_df, k), now)

(* A bulk sale was saved whose upload named one ID twice, for two customers: *)
(* the one ticket with that ID is sold to the first of them.                 *)
C17_Witness ==
    /\ pc = "bulk_sold"
    /\ \E i \in DOMAIN tickets, up_df \in Uploads, now \in Times :
          /\ Len(up_df) >= 2
          /\ UploadID(up_df[1].TicketID) = UploadID(up_df[2].TicketID)
          /\ up_df[1].CustomerName # up_df[2].CustomerName
          /\ RowsWithID(tickets, UploadID(up_df[1].TicketID)) = {i}
          /\ tickets[i].Sold
          /\ tickets[i].Customer = up_df[1].CustomerName
          /\ tickets = ProcessBulk(Unsell(tickets, i), up_df, now)
          /\ store = SheetRows(tickets)

(* C18 as claimed: an upload row whose ID, cleaned as the loader cleans IDs, *)
(* is the TicketID of an Available ticket sells a ticket with that ID (so    *)
(* "901.0" sells ticket "0901" as "901" does).                               *)
C18_BulkUsesLoaderID ==
    pc = "loaded" =>
        \A row \in UploadRows, now \in Times :
            \A i \in DOMAIN tickets :
                (tickets[i].TicketID = CleanTicketID(row.TicketID) /\ ~tickets[i].Sold) =>
                    \E j \in RowsWithID(tickets, CleanTicketID(row.TicketID)) :
                        /\ ~tickets[j].Sold
                        /\ BulkRow(tickets, row, now)[j].Sold
                        /\ BulkRow(tickets, row, now)[j].Customer = row.CustomerName

(* C19: in every state one operator reaches by Sell, BulkSell, CheckIn and   *)
(* Reset from a sheet of Available tickets with Admit >= 1, every group row  *)
(* of the summary has 0 <= Tickets_Sold <= Total_Tickets and                 *)
(* 0 <= Total_Visitors <= Seats_sold, so Balance_Tickets, Balance_Seats and  *)
(* Balance_Visitors are not negative.                                        *)
C19_BalancesNonNegative ==
    \A g \in SummaryRows :
        /\ 0 <= g.Tickets_Sold /\ g.Tickets_Sold <= g.Total_Tickets
        /\ 0 <= g.Total_Visitors /\ g.Total_Visitors <= g.Seats_sold
        /\ g.Balance_Tickets >= 0
        /\ g.Balance_Seats >= 0
        /\ g.Balance_Visitors >= 0

(* The summary of a table of distinct TicketIDs after sales and a check-in   *)
(* short of the Admit: a group with every ticket sold and seats left over.   *)
C19_Witness ==
    /\ pc = "loaded"
    /\ \A i, j \in DOMAIN tickets : i # j => tickets[i].TicketID # tickets[j].TicketID
    /\ \E g \in SummaryRows :
          /\ g.Total_Tickets >= 2
          /\ g.Tickets_Sold = g.Total_Tickets
          /\ g.Total_Visitors >= 1
          /\ g.Balance_Visitors >= 1
          /\ g.Balance_Tickets = 0

====
